---- MODULE Spec2Model ----
(***************************************************************************)
(* A model of crypto_plusplus: the CircularBuffer ring buffer              *)
(* (include/circular_buffer.h) and the OrderBook snapshot/diff             *)
(* synchronisation (include/order_book.h), with the producer callback of   *)
(* src/main.cpp.                                                           *)
(*                                                                         *)
(* Three specifications share the variables:                               *)
(*   SpecBuf   one caller using try_push / try_pop / try_read, each call   *)
(*             atomic (the sequential contract of the buffer);             *)
(*   SpecSPSC  a producer and a consumer thread, one step per cursor load, *)
(*             slot access and cursor store, with the happens-before       *)
(*             edges that the memory orders written in the code create;    *)
(*   SpecBook  OrderBook::init and OrderBook::keep_orderbook_sync over the *)
(*             buffer, fed by binance_callback.                            *)
(***************************************************************************)
EXTENDS Integers, Sequences, FiniteSets, TLC

(***************************************************************************)
(* Bounds of the model.                                                    *)
(***************************************************************************)
\* log2 of the template parameter Size (1024 in main.cpp, 8 in websocket_client.cpp)
SizeLog == 2
\* width of size_t in the model; the mask keeps only the low SizeLog bits
SizeTBits == 8
\* values a caller pushes in SpecBuf and SpecSPSC are 1..NumValues
NumValues == 2
\* successful pushes per behaviour of SpecBuf
MaxPush == 6
\* successful pushes per behaviour of SpecSPSC
MaxSpscPush == 5
\* prices of the model are 1..MaxPrice
MaxPrice == 2

VARIABLES
    \* CircularBuffer fields
    buffer, read_index, write_index, is_ready,
    \* history kept for the properties: values accepted by try_push, values
    \* returned by try_pop, the last call and its result
    pushed, popped, ret, consec,
    \* SpecSPSC: the producer thread's and the consumer thread's position and
    \* locals, and the happens-before bookkeeping of the slots
    prod, cons, hb,
    \* OrderBook fields
    bid_map, ask_map, bid_heap, ask_heap,
    \* SpecBook: the position and the locals of init / keep_orderbook_sync,
    \* the stream the websocket delivers and how much of it was received,
    \* and the record of what the engine did
    eng, feed, fed, glog

bufVars == <<buffer, read_index, write_index, is_ready>>
histVars == <<pushed, popped, ret, consec>>
spscVars == <<prod, cons, hb>>
bookVars == <<bid_map, ask_map, bid_heap, ask_heap>>
engVars == <<eng, feed, fed, glog>>

(***************************************************************************)
(* CircularBuffer                                                          *)
(***************************************************************************)
Pow2(n) == 2 ^ n

Size == Pow2(SizeLog)

\* size_t arithmetic wraps
SizeT(x) == x % Pow2(SizeTBits)

RECURSIVE BitAndBits(_, _, _)
BitAndBits(a, b, n) ==
    IF n = 0 THEN 0
    ELSE (IF a % 2 = 1 /\ b % 2 = 1 THEN 1 ELSE 0)
         + 2 * BitAndBits(a \div 2, b \div 2, n - 1)

\* a & b on size_t
BitAnd(a, b) == BitAndBits(SizeT(a), SizeT(b), SizeTBits)

\* static_assert((Size & (Size - 1)) == 0)
SizeIsPowerOfTwo == BitAnd(Size, Size - 1) = 0

Mask == Size - 1

Slots == 0 .. (Size - 1)

\* a default-constructed slot of the int-valued buffers of SpecBuf and SpecSPSC
NoValue == 0

Values == 1 .. NumValues

\* (i + 1) & Mask
NextIndex(i) == BitAnd(i + 1, Mask)

try_push_unchecked(buf, r, w, value) ==
    LET current_write == w
        next_write == BitAnd(current_write + 1, Mask)
    IN  [ok |-> TRUE,
         buffer |-> [buf EXCEPT ![current_write] = value],
         write_index |-> next_write]

try_push_store_first(buf, r, w, value) ==
    LET current_write == w
        next_write == BitAnd(current_write + 1, Mask)
        stored == [buf EXCEPT ![current_write] = value]
    IN  IF next_write = r
        THEN [ok |-> FALSE, buffer |-> stored, write_index |-> w]
        ELSE [ok |-> TRUE, buffer |-> stored, write_index |-> next_write]

\* bool try_push(const T &value): the result, and the fields after the call
try_push(buf, r, w, value) ==
    LET current_write == w
        next_write == BitAnd(current_write + 1, Mask)
    IN  IF next_write = r
        THEN [ok |-> FALSE, buffer |-> buf, write_index |-> w]
        ELSE [ok |-> TRUE,
              buffer |-> [buf EXCEPT ![current_write] = value],
              write_index |-> next_write]

try_pop_reads_next(buf, r, w) ==
    LET current_read == r
        next_read == BitAnd(current_read + 1, Mask)
    IN  IF current_read = w
        THEN [ok |-> FALSE, read_index |-> r]
        ELSE [ok |-> TRUE, value |-> buf[next_read], read_index |-> next_read]

try_pop_unchecked(buf, r, w) ==
    LET current_read == r
        next_read == BitAnd(current_read + 1, Mask)
    IN  [ok |-> TRUE, value |-> buf[current_read], read_index |-> next_read]

\* bool try_pop(T &value): the result, the value stored, read_index after
try_pop(buf, r, w) ==
    LET current_read == r
        next_read == BitAnd(current_read + 1, Mask)
    IN  IF current_read = w
        THEN [ok |-> FALSE, read_index |-> r]
        ELSE [ok |-> TRUE, value |-> buf[current_read], read_index |-> next_read]

try_read_advances(buf, r, w) ==
    LET current_read == r
    IN  IF current_read = w
        THEN [ok |-> FALSE, read_index |-> r]
        ELSE [ok |-> TRUE, value |-> buf[current_read],
              read_index |-> BitAnd(current_read + 1, Mask)]

\* bool try_read(T &value): the result and the value stored; read_index is
\* not assigned
try_read(buf, r, w) ==
    LET current_read == r
    IN  IF current_read = w
        THEN [ok |-> FALSE, read_index |-> r]
        ELSE [ok |-> TRUE, value |-> buf[current_read], read_index |-> r]

size_unmasked(r, w) == SizeT(w - r)

\* size_t size() const
size(r, w) ==
    LET current_write == w
        current_read == r
    IN  BitAnd(SizeT(current_write - current_read), Mask)

\* bool empty() const
empty(r, w) == size(r, w) = 0

\* constexpr size_t max_size() const
max_size == Size

(***************************************************************************)
(* SpecBuf: one caller, each call atomic.                                  *)
(***************************************************************************)
\* the number of try_push calls made since the buffer was last empty with
\* no try_pop in between (-1 once a try_pop left it non-empty), capped at Size
ConsecAfterPush == IF consec < 0 THEN -1 ELSE IF consec < Size THEN consec + 1 ELSE Size

InitBuffer ==
    /\ buffer = [i \in Slots |-> NoValue]
    /\ read_index = 0
    /\ write_index = 0
    /\ is_ready = FALSE

InitHist ==
    /\ pushed = << >>
    /\ popped = << >>
    /\ ret = [op |-> "none", ok |-> FALSE, value |-> NoValue]
    /\ consec = 0

BufPush(v) ==
    /\ Len(pushed) < MaxPush
    /\ LET res == try_push(buffer, read_index, write_index, v)
       IN  /\ buffer' = res.buffer
           /\ write_index' = res.write_index
           /\ pushed' = IF res.ok THEN Append(pushed, v) ELSE pushed
           /\ ret' = [op |-> "try_push", ok |-> res.ok, value |-> v]
    /\ consec' = ConsecAfterPush
    /\ UNCHANGED <<read_index, is_ready, popped>>

BufPop ==
    /\ LET res == try_pop(buffer, read_index, write_index)
       IN  /\ read_index' = res.read_index
           /\ popped' = IF res.ok THEN Append(popped, res.value) ELSE popped
           /\ ret' = [op |-> "try_pop", ok |-> res.ok,
                      value |-> IF res.ok THEN res.value ELSE NoValue]
           /\ consec' = IF res.read_index = write_index THEN 0 ELSE -1
    /\ UNCHANGED <<buffer, write_index, is_ready, pushed>>

BufRead ==
    /\ LET res == try_read(buffer, read_index, write_index)
       IN  /\ read_index' = res.read_index
           /\ ret' = [op |-> "try_read", ok |-> res.ok,
                      value |-> IF res.ok THEN res.value ELSE NoValue]
    /\ UNCHANGED <<buffer, write_index, is_ready, pushed, popped, consec>>

\* void set_is_ready(bool state)
BufSetReady(state) ==
    /\ is_ready' = state
    /\ UNCHANGED <<buffer, read_index, write_index, histVars>>

(***************************************************************************)
(* SpecSPSC: one producer thread calling try_push, one consumer thread     *)
(* calling try_pop or try_read; a step is one atomic load, one slot access *)
(* or one atomic store.                                                    *)
(*                                                                         *)
(* A slot is a plain (non-atomic) object.  A slot access is ordered after  *)
(* the other thread's conflicting access only through a release store of a *)
(* cursor read by an acquire load of that cursor.  hb records, per slot,   *)
(* whether the last write is ordered before the consumer (cView) and       *)
(* whether the last read is ordered before the producer (pView); relW and  *)
(* relR are what the last store of write_index / read_index published.  A  *)
(* read that is not ordered after the slot's last write is a data race: it *)
(* returns either the slot's new content or the content it had before.     *)
(***************************************************************************)
\* write_index.load in try_push, line 49
PushLoadWriteOrder == "relaxed"
\* read_index.load in try_push, line 56
PushLoadReadOrder == "acquire"
\* write_index.store in try_push, line 67
PushStoreWriteOrder == "release"
\* read_index.load in try_pop / try_read, lines 80 and 104
PopLoadReadOrder == "relaxed"
\* write_index.load in try_pop / try_read, lines 82 and 106
PopLoadWriteOrder == "relaxed"
\* read_index.store in try_pop, line 93
PopStoreReadOrder == "relaxed"

\* what a store with the given order publishes of the storing thread's
\* earlier slot accesses
Published(order) == IF order = "release" THEN Slots ELSE {}

\* what a load with the given order learns from the store it reads
Acquired(order, published) == IF order = "acquire" THEN published ELSE {}

\* none is a value-initialised T
InitSpscOf(none) ==
    /\ prod = [pc |-> "idle", value |-> none, current_write |-> 0, next_write |-> 0]
    /\ cons = [pc |-> "idle", op |-> "none", current_read |-> 0, value |-> none]
    /\ hb = [prev |-> [i \in Slots |-> none],
             relW |-> Slots, cView |-> Slots,
             relR |-> Slots, pView |-> Slots,
             raceRead |-> FALSE, raceWrite |-> FALSE]

InitSpsc == InitSpscOf(NoValue)

\* try_push is called with value v
P_Call(v) ==
    /\ prod.pc = "idle"
    /\ Len(pushed) < MaxSpscPush
    /\ prod' = [prod EXCEPT !.pc = "load_write", !.value = v]
    /\ UNCHANGED <<bufVars, histVars, cons, hb>>

\* line 49-51
P_LoadWrite ==
    /\ prod.pc = "load_write"
    /\ prod' = [prod EXCEPT !.pc = "load_read",
                            !.current_write = write_index,
                            !.next_write = BitAnd(write_index + 1, Mask)]
    /\ UNCHANGED <<bufVars, histVars, cons, hb>>

\* line 56-61
P_LoadRead ==
    /\ prod.pc = "load_read"
    /\ hb' = [hb EXCEPT !.pView = hb.pView \cup Acquired(PushLoadReadOrder, hb.relR)]
    /\ IF prod.next_write = read_index
       THEN /\ prod' = [prod EXCEPT !.pc = "idle"]
            /\ ret' = [op |-> "try_push", ok |-> FALSE, value |-> prod.value]
       ELSE /\ prod' = [prod EXCEPT !.pc = "store_slot"]
            /\ ret' = ret
    /\ UNCHANGED <<bufVars, pushed, popped, consec, cons>>

\* line 64
P_StoreSlot ==
    /\ prod.pc = "store_slot"
    /\ buffer' = [buffer EXCEPT ![prod.current_write] = prod.value]
    /\ hb' = [hb EXCEPT !.prev[prod.current_write] = buffer[prod.current_write],
                        !.cView = hb.cView \ {prod.current_write},
                        !.relW = hb.relW \ {prod.current_write},
                        !.raceWrite = hb.raceWrite \/ prod.current_write \notin hb.pView]
    /\ prod' = [prod EXCEPT !.pc = "store_write"]
    /\ UNCHANGED <<read_index, write_index, is_ready, histVars, cons>>

\* line 67-69
P_StoreWrite ==
    /\ prod.pc = "store_write"
    /\ write_index' = prod.next_write
    /\ hb' = [hb EXCEPT !.relW = Published(PushStoreWriteOrder)]
    /\ pushed' = Append(pushed, prod.value)
    /\ ret' = [op |-> "try_push", ok |-> TRUE, value |-> prod.value]
    /\ prod' = [prod EXCEPT !.pc = "idle"]
    /\ UNCHANGED <<buffer, read_index, is_ready, popped, consec, cons>>

\* try_pop or try_read is called
C_Call(op) ==
    /\ cons.pc = "idle"
    /\ cons' = [cons EXCEPT !.pc = "load_read", !.op = op]
    /\ UNCHANGED <<bufVars, histVars, prod, hb>>

\* line 80 / line 104
C_LoadRead ==
    /\ cons.pc = "load_read"
    /\ cons' = [cons EXCEPT !.pc = "load_write", !.current_read = read_index]
    /\ UNCHANGED <<bufVars, histVars, prod, hb>>

\* line 82-86 / line 106-110
C_LoadWrite ==
    /\ cons.pc = "load_write"
    /\ hb' = [hb EXCEPT !.cView = hb.cView \cup Acquired(PopLoadWriteOrder, hb.relW)]
    /\ IF cons.current_read = write_index
       THEN /\ cons' = [cons EXCEPT !.pc = "idle"]
            /\ ret' = [op |-> cons.op, ok |-> FALSE, value |-> NoValue]
       ELSE /\ cons' = [cons EXCEPT !.pc = "read_slot"]
            /\ ret' = ret
    /\ UNCHANGED <<bufVars, pushed, popped, consec, prod>>

\* what value = buffer[current_read] can store: the slot's content, or,
\* when the read is not ordered after the slot's last write, also the
\* content the slot had before that write
SlotReadOutcomes(i) ==
    IF i \in hb.cView THEN {buffer[i]} ELSE {buffer[i], hb.prev[i]}

\* line 89 and, for try_read, the return of line 114
C_ReadSlot ==
    /\ cons.pc = "read_slot"
    /\ \E value \in SlotReadOutcomes(cons.current_read) :
          /\ hb' = [hb EXCEPT !.pView = hb.pView \ {cons.current_read},
                              !.relR = hb.relR \ {cons.current_read},
                              !.raceRead = hb.raceRead \/ cons.current_read \notin hb.cView]
          /\ IF cons.op = "try_read"
             THEN /\ cons' = [cons EXCEPT !.pc = "idle", !.value = value]
                  /\ ret' = [op |-> "try_read", ok |-> TRUE, value |-> value]
             ELSE /\ cons' = [cons EXCEPT !.pc = "store_read", !.value = value]
                  /\ ret' = ret
    /\ UNCHANGED <<bufVars, pushed, popped, consec, prod>>

\* line 91-94
C_StoreRead ==
    /\ cons.pc = "store_read"
    /\ read_index' = BitAnd(cons.current_read + 1, Mask)
    /\ hb' = [hb EXCEPT !.relR = Published(PopStoreReadOrder)]
    /\ popped' = Append(popped, cons.value)
    /\ ret' = [op |-> "try_pop", ok |-> TRUE, value |-> cons.value]
    /\ cons' = [cons EXCEPT !.pc = "idle"]
    /\ UNCHANGED <<buffer, write_index, is_ready, pushed, consec, prod>>

(***************************************************************************)
(* Strings and their conversions.  A std::string is the sequence of its    *)
(* characters: 0..9 are the digits, NonDigit is any other character.       *)
(***************************************************************************)
NonDigit == 10

\* std::to_string(int64_t) of a non-negative value
RECURSIVE to_string(_)
to_string(n) == IF n < 10 THEN <<n>> ELSE Append(to_string(n \div 10), n % 10)

\* the length of the leading run of digits of s
RECURSIVE DigitPrefix(_)
DigitPrefix(s) ==
    IF s = << >> \/ Head(s) \notin 0 .. 9 THEN 0 ELSE 1 + DigitPrefix(Tail(s))

RECURSIVE DigitsValue(_, _)
DigitsValue(s, n) ==
    IF n = 0 THEN 0 ELSE 10 * DigitsValue(s, n - 1) + s[n]

\* std::stoll(s): converts the leading digits; throws std::invalid_argument
\* (ok = FALSE) when s does not start with a digit
stoll(s) ==
    IF DigitPrefix(s) = 0 THEN [ok |-> FALSE, value |-> 0]
    ELSE [ok |-> TRUE, value |-> DigitsValue(s, DigitPrefix(s))]

\* std::stod(s) on the decimal strings of the model
stod(s) == stoll(s)

(***************************************************************************)
(* Binance_DiffDepth records, as binance_callback fills them.              *)
(***************************************************************************)
DiffDepth(U, u, bids, asks) ==
    [first_update_id |-> to_string(U), final_update_id |-> to_string(u),
     bids |-> bids, asks |-> asks]

\* a default-constructed Binance_DiffDepth
DefaultEvent ==
    [first_update_id |-> << >>, final_update_id |-> << >>,
     bids |-> << >>, asks |-> << >>]

\* a price level [price, quantity] as the two strings of the message
Level(price, quantity) == <<to_string(price), to_string(quantity)>>

PriceSet == 1 .. MaxPrice

\* the depth streams the exchange sends: update ids increase along a stream
StreamBoundary ==
    << DiffDepth(995, 999, <<Level(1, 5)>>, << >>),
       DiffDepth(1000, 1005, <<Level(2, 5)>>, <<Level(2, 5)>>),
       DiffDepth(1006, 1010, <<Level(2, 0)>>, <<Level(1, 5)>>) >>

StreamGap ==
    << DiffDepth(995, 999, <<Level(1, 5)>>, << >>),
       DiffDepth(1000, 1005, <<Level(2, 5)>>, <<Level(2, 5)>>),
       DiffDepth(1008, 1010, <<Level(1, 0)>>, <<Level(1, 5)>>),
       DiffDepth(1011, 1015, <<Level(2, 5), Level(1, 0)>>,
                             <<Level(1, 5), Level(2, 0)>>) >>

\* a quantity string that std::stod cannot convert
BadNumber == <<NonDigit>>

\* a stream in which the update (1000,1005) is delivered twice and the
\* second bid level of (1006,1010) has a malformed quantity
StreamFaulty ==
    << DiffDepth(995, 999, <<Level(1, 5)>>, << >>),
       DiffDepth(1000, 1005, <<Level(2, 5)>>, <<Level(2, 5)>>),
       DiffDepth(1000, 1005, <<Level(2, 5)>>, <<Level(2, 5)>>),
       DiffDepth(1006, 1010, <<Level(1, 6), <<to_string(2), BadNumber>>>>,
                             <<Level(1, 5)>>) >>

Streams == {StreamBoundary, StreamGap, StreamFaulty}

\* the depth snapshots the REST endpoint can return
SnapshotIds == {990, 1000, 1010}

SnapshotBooks ==
    { [bids |-> << >>, asks |-> << >>],
      [bids |-> <<Level(1, 7)>>, asks |-> <<Level(2, 7), Level(1, 0)>>] }

Snapshots ==
    { [lastUpdateId |-> L, bids |-> b.bids, asks |-> b.asks] :
        L \in SnapshotIds, b \in SnapshotBooks }

\* what one cpr::Get plus the parse of its body can come to
FetchOutcomes ==
    { [kind |-> "http_error"], [kind |-> "json_error"] }
    \cup { [kind |-> k, doc |-> d] : k \in {"ok", "json_error_in_bids"}, d \in Snapshots }

(***************************************************************************)
(* OrderBook: maps and heaps.  A map is a function from the prices present *)
(* to their quantity; a heap is the number of entries it holds per price.  *)
(***************************************************************************)
MAX_RETRIES == 10
MAX_SNAPSHOT_RETRIES == 10

EmptyMap == [p \in {} |-> 0]

EmptyHeap == [p \in PriceSet |-> 0]

HeapPrices(heap) == {p \in PriceSet : heap[p] > 0}

HeapEmpty(heap) == HeapPrices(heap) = {}

HeapPush(heap, p) == [heap EXCEPT ![p] = @ + 1]

HeapPopTop(heap, top) == [heap EXCEPT ![top] = @ - 1]

\* bid_heap.top(): std::priority_queue<double> is a max heap
BidTop(heap) == CHOOSE p \in HeapPrices(heap) : \A q \in HeapPrices(heap) : q <= p

\* ask_heap.top(): std::greater makes it a min heap
AskTop(heap) == CHOOSE p \in HeapPrices(heap) : \A q \in HeapPrices(heap) : p <= q

MapPut(map, p, q) == [x \in DOMAIN map \cup {p} |-> IF x = p THEN q ELSE map[x]]

MapErase(map, p) == [x \in DOMAIN map \ {p} |-> map[x]]

\* parse_price_level: false when a string does not convert
parse_price_level(level) ==
    LET price == stod(level[1])
        quantity == stod(level[2])
    IN  [ok |-> price.ok /\ quantity.ok, price |-> price.value, quantity |-> quantity.value]

RECURSIVE LoadLevels_map_only(_, _, _)
LoadLevels_map_only(map, heap, levels) ==
    IF levels = << >> THEN [map |-> map, heap |-> heap]
    ELSE LET lv == parse_price_level(Head(levels))
         IN  IF lv.ok /\ lv.quantity > 0
             THEN LoadLevels_map_only(MapPut(map, lv.price, lv.quantity),
                                      heap, Tail(levels))
             ELSE LoadLevels_map_only(map, heap, Tail(levels))

\* init(), the loop over the snapshot's levels of one side
RECURSIVE LoadLevels(_, _, _)
LoadLevels(map, heap, levels) ==
    IF levels = << >> THEN [map |-> map, heap |-> heap]
    ELSE LET lv == parse_price_level(Head(levels))
         IN  IF lv.ok /\ lv.quantity > 0
             THEN LoadLevels(MapPut(map, lv.price, lv.quantity),
                             HeapPush(heap, lv.price), Tail(levels))
             ELSE LoadLevels(map, heap, Tail(levels))

RECURSIVE ApplyLevels_stores_all(_, _, _)
ApplyLevels_stores_all(map, heap, levels) ==
    IF levels = << >> THEN [ok |-> TRUE, map |-> map, heap |-> heap]
    ELSE LET price == stod(Head(levels)[1])
             quantity == stod(Head(levels)[2])
         IN  IF ~price.ok \/ ~quantity.ok
             THEN [ok |-> FALSE, map |-> map, heap |-> heap]
             ELSE ApplyLevels_stores_all(MapPut(map, price.value, quantity.value),
                                         HeapPush(heap, price.value), Tail(levels))

\* keep_orderbook_sync(), the loop over the event's levels of one side; a
\* std::stod that throws leaves the loop with the levels before it applied
RECURSIVE ApplyLevels(_, _, _)
ApplyLevels(map, heap, levels) ==
    IF levels = << >> THEN [ok |-> TRUE, map |-> map, heap |-> heap]
    ELSE LET price == stod(Head(levels)[1])
             quantity == stod(Head(levels)[2])
         IN  IF ~price.ok \/ ~quantity.ok
             THEN [ok |-> FALSE, map |-> map, heap |-> heap]
             ELSE IF quantity.value > 0
             THEN ApplyLevels(MapPut(map, price.value, quantity.value),
                              HeapPush(heap, price.value), Tail(levels))
             ELSE ApplyLevels(MapErase(map, price.value), heap, Tail(levels))

PruneBids_none(heap, map) == heap

PruneBids_once(heap, map) ==
    IF HeapEmpty(heap) \/ BidTop(heap) \in DOMAIN map THEN heap
    ELSE HeapPopTop(heap, BidTop(heap))

\* while (!bid_heap.empty() && bid_map.find(bid_heap.top()) == bid_map.end())
RECURSIVE PruneBids(_, _)
PruneBids(heap, map) ==
    IF HeapEmpty(heap) \/ BidTop(heap) \in DOMAIN map THEN heap
    ELSE PruneBids(HeapPopTop(heap, BidTop(heap)), map)

RECURSIVE PruneAsks(_, _)
PruneAsks(heap, map) ==
    IF HeapEmpty(heap) \/ AskTop(heap) \in DOMAIN map THEN heap
    ELSE PruneAsks(HeapPopTop(heap, AskTop(heap)), map)

(***************************************************************************)
(* SpecBook: the engine.  eng.pc is the place in init() ("i_...") or in    *)
(* keep_orderbook_sync() ("k_..."); eng.ctx tells whether init() runs in   *)
(* the init thread of main() or was called by keep_orderbook_sync().       *)
(***************************************************************************)
InitBook ==
    /\ bid_map = EmptyMap
    /\ ask_map = EmptyMap
    /\ bid_heap = EmptyHeap
    /\ ask_heap = EmptyHeap

InitEngine ==
    /\ eng = [pc |-> "i_wait", ctx |-> "init_thread",
              retry_count |-> 0, snapshot_retry_count |-> 0,
              first_update_id |-> 0, last_update_id |-> 0,
              drain_event |-> DefaultEvent, event |-> DefaultEvent,
              event_first_update_id |-> 0, event_last_update_id |-> 0,
              local_update_id |-> 0,
              current_write |-> 0, next_write |-> 0,
              init_done |-> FALSE]

\* the record of what the engine did: the ids of the events applied (in
\* order) and discarded, the lastUpdateId of the snapshots loaded, whether
\* an event with first_update_id > local_update_id + 1 was met and no init()
\* has returned true since (gap), whether the last engine step was the
\* return true of init() (synced), how many times keep_orderbook_sync()
\* called init(), how many messages were in the buffer when init() started
\* (prefill); of the init() in progress or last finished: the
\* first_update_id it peeked (U0, -1 before the peek), the lastUpdateId (L,
\* -1 if none) and the levels (book) of the snapshot it loaded; per side the
\* prices an applied update erased from the map and nothing stored again
\* since (zeroed); whether an init() called by keep_orderbook_sync() threw
\* (failed); whether the process was asked to shut down (shutdown)
NoBook == [bids |-> << >>, asks |-> << >>]

InitLog(k) ==
    glog = [applied |-> << >>, dropped |-> {}, snapshotIds |-> {}, L |-> -1,
            gap |-> FALSE, synced |-> FALSE, resyncs |-> 0, prefill |-> k,
            U0 |-> -1, book |-> NoBook,
            zeroed |-> [bids |-> {}, asks |-> {}], failed |-> FALSE,
            shutdown |-> FALSE]

\* the prices of zeroed after the levels of one side of an event are applied
\* to map, as ApplyLevels applies them
RECURSIVE ZeroedAfter(_, _, _)
ZeroedAfter(zeroed, map, levels) ==
    IF levels = << >> THEN zeroed
    ELSE LET price == stod(Head(levels)[1])
             quantity == stod(Head(levels)[2])
         IN  IF ~price.ok \/ ~quantity.ok THEN zeroed
             ELSE IF quantity.value > 0
             THEN ZeroedAfter(zeroed \ {price.value},
                              MapPut(map, price.value, quantity.value), Tail(levels))
             ELSE ZeroedAfter(IF price.value \in DOMAIN map
                              THEN zeroed \cup {price.value} ELSE zeroed,
                              MapErase(map, price.value), Tail(levels))

\* the log after an engine step that leaves init() in state e: a throw
\* inside keep_orderbook_sync() is noted
NoteThrow(g, e) ==
    [g EXCEPT !.failed = @ \/ (e.ctx = "sync_thread" /\ e.pc = "k_prune")]

\* the locals of init() go out of scope when it returns or throws
InitLocals(e) ==
    [e EXCEPT !.retry_count = 0, !.snapshot_retry_count = 0,
              !.first_update_id = 0, !.last_update_id = 0,
              !.drain_event = DefaultEvent,
              !.current_write = 0, !.next_write = 0]

\* the event of keep_orderbook_sync() is overwritten by the next try_pop
LiveLocals(e) ==
    [e EXCEPT !.event = DefaultEvent,
              !.event_first_update_id = 0, !.event_last_update_id = 0]

\* a throw out of init(): in the init thread of main() nothing catches it
\* and std::terminate ends the process; inside keep_orderbook_sync() the
\* catch (const std::exception &) of line 380 takes it and the loop goes on
Throw(e) ==
    IF e.ctx = "init_thread" THEN [InitLocals(e) EXCEPT !.pc = "terminated"]
    ELSE [LiveLocals(InitLocals(e)) EXCEPT !.pc = "k_prune"]

\* return true of init(): the lambda of the init thread goes on to store
\* order_book_init_done, or line 331 of the caller runs
ReturnTrue(e) ==
    IF e.ctx = "init_thread"
    THEN [InitLocals(e) EXCEPT !.pc = "t_store_done"]
    ELSE [InitLocals(e) EXCEPT !.pc = "k_apply",
                               !.local_update_id = e.event_last_update_id]

Ids(ev) == <<stoll(ev.first_update_id).value, stoll(ev.final_update_id).value>>

\* binance_callback, LWS_CALLBACK_CLIENT_RECEIVE: the next message of the
\* stream is decoded and try_push is called with it
Receive ==
    /\ prod.pc = "idle"
    /\ fed < Len(feed)
    /\ fed' = fed + 1
    /\ prod' = [prod EXCEPT !.pc = "load_write", !.value = feed[fed + 1]]
    /\ UNCHANGED <<bufVars, histVars, cons, hb, bookVars, eng, feed, glog>>

\* set_is_ready(true), called by the owner of the buffer
SetReady ==
    /\ ~is_ready
    /\ is_ready' = TRUE
    /\ UNCHANGED <<buffer, read_index, write_index, histVars, spscVars, bookVars, engVars>>

\* init(), lines 130-134
I_Wait ==
    /\ eng.pc = "i_wait"
    /\ eng' = IF is_ready
              THEN [eng EXCEPT !.pc = "i_peek", !.retry_count = 0]
              ELSE eng
    /\ glog' = [glog EXCEPT !.synced = FALSE]
    /\ UNCHANGED <<bufVars, histVars, spscVars, bookVars, feed, fed>>

\* init(), lines 143-181: one turn of the retry loop, and what follows it
I_Peek ==
    /\ eng.pc = "i_peek"
    /\ LET res == try_read(buffer, read_index, write_index)
           id == stoll(res.value.first_update_id)
       IN  /\ eng' = IF res.ok
                     THEN IF id.ok
                          THEN [eng EXCEPT !.pc = "i_fetch",
                                           !.retry_count = 0,
                                           !.first_update_id = id.value,
                                           !.snapshot_retry_count = 0,
                                           !.last_update_id = 0]
                          ELSE Throw(eng)
                     ELSE IF eng.retry_count + 1 < MAX_RETRIES
                          THEN [eng EXCEPT !.retry_count = @ + 1]
                          ELSE Throw([eng EXCEPT !.retry_count = @ + 1])
           /\ glog' = NoteThrow(IF res.ok /\ id.ok
                                THEN [glog EXCEPT !.U0 = id.value] ELSE glog, eng')
    /\ UNCHANGED <<bufVars, histVars, spscVars, bookVars, feed, fed>>

\* line 247-250, then the drain loop
AfterFetchLoop(e) ==
    IF e.last_update_id < e.first_update_id THEN Throw(e)
    ELSE [e EXCEPT !.pc = "i_drain", !.snapshot_retry_count = 0, !.first_update_id = 0]

\* init(), lines 184-250: one turn of the snapshot loop; the check of line
\* 247 follows the turn that leaves the loop
I_Fetch ==
    /\ eng.pc = "i_fetch"
    /\ \E out \in FetchOutcomes :
         LET next == [eng EXCEPT !.snapshot_retry_count = @ + 1]
             again(e) == IF e.snapshot_retry_count < MAX_SNAPSHOT_RETRIES
                         THEN e ELSE AfterFetchLoop(e)
         IN  IF out.kind \in {"http_error", "json_error"}
             THEN /\ eng' = again(next)
                  /\ glog' = NoteThrow(glog, eng')
                  /\ UNCHANGED bookVars
             ELSE
             LET L == out.doc.lastUpdateId
                 got == [next EXCEPT !.last_update_id = L]
                 b == LoadLevels(bid_map, bid_heap, out.doc.bids)
                 a == LoadLevels(ask_map, ask_heap, out.doc.asks)
             IN  IF L >= eng.first_update_id
                 THEN IF out.kind = "ok"
                      THEN /\ bid_map' = b.map
                           /\ bid_heap' = b.heap
                           /\ ask_map' = a.map
                           /\ ask_heap' = a.heap
                           /\ eng' = AfterFetchLoop([eng EXCEPT !.last_update_id = L])
                           /\ glog' = [glog EXCEPT
                                         !.snapshotIds = @ \cup {L}, !.L = L,
                                         !.book = [bids |-> out.doc.bids,
                                                   asks |-> out.doc.asks],
                                         !.zeroed = [bids |-> @.bids \ DOMAIN b.map,
                                                     asks |-> @.asks \ DOMAIN a.map]]
                      ELSE /\ eng' = again(got)
                           /\ glog' = NoteThrow(glog, eng')
                           /\ UNCHANGED bookVars
                 ELSE /\ eng' = again(got)
                      /\ glog' = NoteThrow(glog, eng')
                      /\ UNCHANGED bookVars
    /\ UNCHANGED <<bufVars, histVars, spscVars, feed, fed>>

\* init(), lines 256-285: one turn of the drain loop, up to the call of
\* try_push for the event that is put back
I_Drain ==
    /\ eng.pc = "i_drain"
    /\ LET res == try_pop(buffer, read_index, write_index)
           id == stoll(res.value.final_update_id)
       IN  IF ~res.ok
           THEN /\ eng' = ReturnTrue(eng)
                /\ glog' = [glog EXCEPT !.synced = TRUE, !.gap = FALSE]
                /\ UNCHANGED read_index
           ELSE /\ read_index' = res.read_index
                /\ IF res.value.final_update_id = << >> \/ ~id.ok
                   THEN /\ eng' = eng
                        /\ glog' = [glog EXCEPT !.dropped = @ \cup {Ids(res.value)}]
                   ELSE IF id.value > eng.last_update_id
                   THEN /\ eng' = [eng EXCEPT !.drain_event = res.value,
                                              !.pc = "i_push_load_write"]
                        /\ glog' = glog
                   ELSE /\ eng' = eng
                        /\ glog' = [glog EXCEPT !.dropped = @ \cup {Ids(res.value)}]
    /\ UNCHANGED <<buffer, write_index, is_ready, histVars, spscVars, bookVars, feed, fed>>

\* line 272, try_push of the event put back: lines 49-51 of the buffer
I_PushLoadWrite ==
    /\ eng.pc = "i_push_load_write"
    /\ eng' = [eng EXCEPT !.pc = "i_push_load_read",
                          !.current_write = write_index,
                          !.next_write = BitAnd(write_index + 1, Mask)]
    /\ UNCHANGED <<bufVars, histVars, spscVars, bookVars, feed, fed, glog>>

\* lines 56-61 of the buffer; a failed push is logged and the loop is left
I_PushLoadRead ==
    /\ eng.pc = "i_push_load_read"
    /\ IF eng.next_write = read_index
       THEN /\ eng' = ReturnTrue(eng)
            /\ glog' = [glog EXCEPT !.synced = TRUE, !.gap = FALSE,
                                    !.dropped = @ \cup {Ids(eng.drain_event)}]
       ELSE /\ eng' = [eng EXCEPT !.pc = "i_push_store_slot"]
            /\ glog' = glog
    /\ UNCHANGED <<bufVars, histVars, spscVars, bookVars, feed, fed>>

\* line 64 of the buffer
I_PushStoreSlot ==
    /\ eng.pc = "i_push_store_slot"
    /\ buffer' = [buffer EXCEPT ![eng.current_write] = eng.drain_event]
    /\ eng' = [eng EXCEPT !.pc = "i_push_store_write"]
    /\ UNCHANGED <<read_index, write_index, is_ready, histVars, spscVars, bookVars,
                   feed, fed, glog>>

\* line 67 of the buffer, then the break of line 276 and return true
I_PushStoreWrite ==
    /\ eng.pc = "i_push_store_write"
    /\ write_index' = eng.next_write
    /\ eng' = ReturnTrue(eng)
    /\ glog' = [glog EXCEPT !.synced = TRUE, !.gap = FALSE]
    /\ UNCHANGED <<buffer, read_index, is_ready, histVars, spscVars, bookVars, feed, fed>>

\* main.cpp line 209: the init thread stores order_book_init_done and ends
T_InitDone ==
    /\ eng.pc = "t_store_done"
    /\ eng' = [eng EXCEPT !.pc = "t_done", !.init_done = TRUE]
    /\ glog' = [glog EXCEPT !.synced = FALSE]
    /\ UNCHANGED <<bufVars, histVars, spscVars, bookVars, feed, fed>>

order_book_init_done_always(e) == TRUE

\* main.cpp line 212: what the wait loop of main() loads
order_book_init_done(e) == e.init_done

\* main.cpp lines 212-218: main() leaves its wait loop and starts the sync
\* thread, whose local_update_id starts at 0 (order_book.h line 299)
M_StartSync ==
    /\ eng.ctx = "init_thread"
    /\ eng.pc # "terminated"
    /\ order_book_init_done(eng)
    /\ eng' = [eng EXCEPT !.pc = "k_loop", !.ctx = "sync_thread",
                          !.local_update_id = 0]
    /\ glog' = [glog EXCEPT !.synced = FALSE]
    /\ UNCHANGED <<bufVars, histVars, spscVars, bookVars, feed, fed>>

OnEvent_keeps_stale(local, first, last) ==
    IF first > local THEN "init" ELSE "apply"

OnEvent_applies_on_gap(local, first, last) ==
    IF last < local THEN "stale" ELSE "apply"

\* keep_orderbook_sync(), lines 312-333: what is done with a popped event
OnEvent(local, first, last) ==
    IF last < local THEN "stale"
    ELSE IF first > local THEN "init"
    ELSE "apply"

\* keep_orderbook_sync(), lines 305-333: the pop and what is decided on the
\* event; a gap calls init()
K_Pop ==
    /\ eng.pc = "k_loop"
    /\ LET res == try_pop(buffer, read_index, write_index)
           first == stoll(res.value.first_update_id)
           last == stoll(res.value.final_update_id)
       IN  IF ~(is_ready /\ res.ok)
           THEN /\ eng' = [eng EXCEPT !.pc = "k_prune"]
                /\ UNCHANGED read_index
                /\ glog' = [glog EXCEPT !.synced = FALSE]
           ELSE /\ read_index' = res.read_index
                /\ IF ~first.ok \/ ~last.ok
                   THEN /\ eng' = [eng EXCEPT !.pc = "k_prune"]
                        /\ glog' = [glog EXCEPT !.synced = FALSE,
                                                !.dropped = @ \cup {Ids(res.value)}]
                   ELSE
                   LET e == [eng EXCEPT !.event = res.value,
                                        !.event_first_update_id = first.value,
                                        !.event_last_update_id = last.value]
                       todo == OnEvent(eng.local_update_id, first.value, last.value)
                   IN  IF todo = "stale"
                       THEN /\ eng' = eng
                            /\ glog' = [glog EXCEPT !.synced = FALSE,
                                                    !.dropped = @ \cup {Ids(res.value)}]
                       ELSE IF todo = "init"
                       THEN /\ eng' = [e EXCEPT !.pc = "i_wait"]
                            /\ glog' = [glog EXCEPT
                                          !.synced = FALSE,
                                          !.gap = @ \/ first.value > eng.local_update_id + 1,
                                          !.resyncs = @ + 1,
                                          !.U0 = -1, !.L = -1, !.book = NoBook]
                       ELSE /\ eng' = [e EXCEPT !.pc = "k_apply"]
                            /\ glog' = [glog EXCEPT
                                          !.synced = FALSE,
                                          !.gap = @ \/ first.value > eng.local_update_id + 1]
    /\ UNCHANGED <<buffer, write_index, is_ready, histVars, spscVars, bookVars, feed, fed>>

\* keep_orderbook_sync(), lines 336-383: the event's bids, then its asks,
\* then the cursor; a std::stod that throws is caught at line 380
K_Apply ==
    /\ eng.pc = "k_apply"
    /\ LET b == ApplyLevels(bid_map, bid_heap, eng.event.bids)
           a == ApplyLevels(ask_map, ask_heap, eng.event.asks)
       IN  /\ bid_map' = b.map
           /\ bid_heap' = b.heap
           /\ ask_map' = IF b.ok THEN a.map ELSE ask_map
           /\ ask_heap' = IF b.ok THEN a.heap ELSE ask_heap
           /\ eng' = [LiveLocals(eng) EXCEPT
                          !.pc = "k_prune",
                          !.local_update_id =
                              IF b.ok /\ a.ok THEN eng.event_last_update_id ELSE @]
           /\ glog' = [glog EXCEPT
                         !.synced = FALSE,
                         !.applied = Append(@, Ids(eng.event)),
                         !.zeroed =
                             [bids |-> ZeroedAfter(@.bids, bid_map, eng.event.bids),
                              asks |-> IF b.ok
                                       THEN ZeroedAfter(@.asks, ask_map, eng.event.asks)
                                       ELSE @.asks]]
    /\ UNCHANGED <<bufVars, histVars, spscVars, feed, fed>>

\* keep_orderbook_sync(), lines 387-403
K_Prune ==
    /\ eng.pc = "k_prune"
    /\ bid_heap' = PruneBids(bid_heap, bid_map)
    /\ ask_heap' = PruneAsks(ask_heap, ask_map)
    /\ eng' = [eng EXCEPT !.pc = "k_loop"]
    /\ glog' = [glog EXCEPT !.synced = FALSE]
    /\ UNCHANGED <<bufVars, histVars, spscVars, bid_map, ask_map, feed, fed>>

(***************************************************************************)
(* Specifications                                                          *)
(***************************************************************************)
vars == <<bufVars, histVars, spscVars, bookVars, engVars>>

\* the engine is not running in SpecBuf and SpecSPSC
InitNoFeed ==
    /\ feed = << >>
    /\ fed = 0

InitBuf ==
    InitBuffer /\ InitHist /\ InitSpsc /\ InitBook /\ InitEngine /\ InitLog(0) /\ InitNoFeed

NextBuf ==
    \/ \E v \in Values : BufPush(v) /\ UNCHANGED <<spscVars, bookVars, engVars>>
    \/ BufPop /\ UNCHANGED <<spscVars, bookVars, engVars>>
    \/ BufRead /\ UNCHANGED <<spscVars, bookVars, engVars>>
    \/ \E state \in BOOLEAN : BufSetReady(state) /\ UNCHANGED <<spscVars, bookVars, engVars>>

SpecBuf == InitBuf /\ [][NextBuf]_vars

InitSPSC ==
    InitBuffer /\ InitHist /\ InitSpsc /\ InitBook /\ InitEngine /\ InitLog(0) /\ InitNoFeed

NextSPSC ==
    \/ \E v \in Values : P_Call(v) /\ UNCHANGED <<bookVars, engVars>>
    \/ P_LoadWrite /\ UNCHANGED <<bookVars, engVars>>
    \/ P_LoadRead /\ UNCHANGED <<bookVars, engVars>>
    \/ P_StoreSlot /\ UNCHANGED <<bookVars, engVars>>
    \/ P_StoreWrite /\ UNCHANGED <<bookVars, engVars>>
    \/ \E op \in {"try_pop", "try_read"} : C_Call(op) /\ UNCHANGED <<bookVars, engVars>>
    \/ C_LoadRead /\ UNCHANGED <<bookVars, engVars>>
    \/ C_LoadWrite /\ UNCHANGED <<bookVars, engVars>>
    \/ C_ReadSlot /\ UNCHANGED <<bookVars, engVars>>
    \/ C_StoreRead /\ UNCHANGED <<bookVars, engVars>>

SpecSPSC == InitSPSC /\ [][NextSPSC]_vars

\* the messages received before init() starts are in the buffer, in order
Prefilled(stream, k) ==
    [i \in Slots |-> IF i < k THEN stream[i + 1] ELSE DefaultEvent]

Min(a, b) == IF a < b THEN a ELSE b

InitBookSpec ==
    /\ feed \in Streams
    /\ fed \in 0 .. Min(Len(feed), Size - 1)
    /\ buffer = Prefilled(feed, fed)
    /\ read_index = 0
    /\ write_index = fed
    /\ is_ready = FALSE
    /\ pushed = SubSeq(feed, 1, fed)
    /\ popped = << >>
    /\ ret = [op |-> "none", ok |-> FALSE, value |-> DefaultEvent]
    /\ consec = 0
    /\ InitSpscOf(DefaultEvent)
    /\ InitBook
    /\ InitEngine
    /\ InitLog(fed)

Running == eng.pc # "terminated"

NextBook ==
    \/ Running /\ Receive
    \/ Running /\ P_LoadWrite /\ UNCHANGED <<bookVars, engVars>>
    \/ Running /\ P_LoadRead /\ UNCHANGED <<bookVars, engVars>>
    \/ Running /\ P_StoreSlot /\ UNCHANGED <<bookVars, engVars>>
    \/ Running /\ P_StoreWrite /\ UNCHANGED <<bookVars, engVars>>
    \/ Running /\ SetReady
    \/ I_Wait
    \/ I_Peek
    \/ I_Fetch
    \/ I_Drain
    \/ I_PushLoadWrite
    \/ I_PushLoadRead
    \/ I_PushStoreSlot
    \/ I_PushStoreWrite
    \/ T_InitDone
    \/ M_StartSync
    \/ K_Pop
    \/ K_Apply
    \/ K_Prune

SpecBook == InitBookSpec /\ [][NextBook]_vars

\* the threads of main(): the websocket service loop that runs
\* binance_callback, and the init thread, main()'s wait for it and the sync
\* thread, of which one at a time has a step to take; each is scheduled
\* again and again.  No thread of the program calls set_is_ready, so
\* SetReady has no fairness
ProducerStep ==
    /\ Running
    /\ \/ Receive
       \/ (P_LoadWrite \/ P_LoadRead \/ P_StoreSlot \/ P_StoreWrite)
          /\ UNCHANGED <<bookVars, engVars>>

EngineStep ==
    \/ I_Wait \/ I_Peek \/ I_Fetch \/ I_Drain
    \/ I_PushLoadWrite \/ I_PushLoadRead \/ I_PushStoreSlot \/ I_PushStoreWrite
    \/ T_InitDone \/ M_StartSync
    \/ K_Pop \/ K_Apply \/ K_Prune

SpecBookFair == SpecBook /\ WF_vars(ProducerStep) /\ WF_vars(EngineStep)

\* a request to shut the process down, made from outside at any moment; no
\* statement of init(), keep_orderbook_sync() or main() reads such a request
RequestShutdown ==
    /\ ~glog.shutdown
    /\ glog' = [glog EXCEPT !.shutdown = TRUE]
    /\ UNCHANGED <<bufVars, histVars, spscVars, bookVars, eng, feed, fed>>

NextStop ==
    \/ NextBook
    \/ RequestShutdown

SpecBookStop ==
    InitBookSpec /\ [][NextStop]_vars /\ WF_vars(ProducerStep) /\ WF_vars(EngineStep)

(***************************************************************************)
(* The sequential contract of CircularBuffer (SpecBuf)                     *)
(***************************************************************************)
\* the slots from read_index up to write_index, oldest first
RECURSIVE Contents(_, _, _)
Contents(buf, r, w) ==
    IF r = w THEN << >> ELSE <<buf[r]>> \o Contents(buf, NextIndex(r), w)

Stored == Len(pushed) - Len(popped)

\* C1: the values returned by the successful try_pop calls are the values of
\* the successful try_push calls, in push order, and the values pushed and
\* not yet popped are the buffer's contents, oldest first: nothing is lost,
\* duplicated or reordered.
C1_Fifo ==
    /\ Len(popped) <= Len(pushed)
    /\ popped = SubSeq(pushed, 1, Len(popped))
    /\ Contents(buffer, read_index, write_index)
         = SubSeq(pushed, Len(popped) + 1, Len(pushed))

C1_Witness ==
    /\ Len(popped) = MaxPush
    /\ popped = pushed
    /\ popped[1] # popped[2]
    /\ ret.op = "try_pop" /\ ret.ok

\* C2: try_push on a full buffer ((write_index + 1) mod capacity equals
\* read_index) returns false and leaves write_index, read_index and every
\* slot as they were.
C2_PushOnFull ==
    [][\A v \in Values :
          (NextIndex(write_index) = read_index /\ BufPush(v))
          => (~ret'.ok /\ UNCHANGED <<buffer, read_index, write_index>>)]_vars

C2_Witness ==
    /\ ret.op = "try_push" /\ ~ret.ok
    /\ NextIndex(write_index) = read_index
    /\ write_index < read_index

\* C3: try_pop and try_read on an empty buffer (read_index = write_index)
\* return false and leave the indices and the slots unchanged; they return
\* true whenever read_index # write_index.
C3_PopReadOnEmpty ==
    [][(BufPop \/ BufRead)
       => IF read_index = write_index
          THEN ~ret'.ok /\ UNCHANGED <<buffer, read_index, write_index>>
          ELSE ret'.ok]_vars

C3_Witness ==
    /\ ret.op \in {"try_pop", "try_read"} /\ ~ret.ok
    /\ read_index = write_index
    /\ Len(popped) > 0

\* C4: size() equals (write_index - read_index) mod capacity, which is the
\* number of successful pushes minus the number of successful pops; empty()
\* is true exactly when that number is 0.
C4_Size ==
    /\ size(read_index, write_index) = (write_index - read_index) % Size
    /\ size(read_index, write_index) = Stored
    /\ empty(read_index, write_index) <=> Stored = 0

C4_Witness ==
    /\ write_index < read_index
    /\ size(read_index, write_index) = 2
    /\ Len(popped) > 0

\* C5: read_index and write_index stay in [0, capacity), the number of
\* stored items never exceeds capacity - 1, and of the try_push calls made
\* in a row from an empty buffer exactly the first capacity - 1 succeed.
C5_RingInvariant ==
    /\ read_index \in 0 .. (Size - 1)
    /\ write_index \in 0 .. (Size - 1)
    /\ Stored <= Size - 1
    /\ size(read_index, write_index) <= max_size - 1
    /\ (ret.op = "try_push" /\ consec > 0) => (ret.ok <=> consec <= Size - 1)
    /\ consec >= 0 => Stored = (IF consec <= Size - 1 THEN consec ELSE Size - 1)

C5_Witness ==
    /\ consec = Size
    /\ ret.op = "try_push" /\ ~ret.ok
    /\ Stored = Size - 1
    /\ Len(popped) > 0

\* C6: try_read on a non-empty buffer returns the value the next try_pop
\* returns and leaves read_index, write_index, size() and all slots
\* unchanged.
C6_PeekKeeps ==
    [][BufRead
       => /\ UNCHANGED <<buffer, read_index, write_index>>
          /\ size(read_index', write_index') = size(read_index, write_index)
          /\ read_index # write_index
             => /\ ret'.ok
                /\ try_pop(buffer', read_index', write_index').ok
                /\ ret'.value = try_pop(buffer', read_index', write_index').value]_vars

C6_Witness ==
    /\ ret.op = "try_read" /\ ret.ok
    /\ Stored >= 2
    /\ write_index < read_index
    /\ ret.value = buffer[read_index]

(***************************************************************************)
(* The producer/consumer protocol (SpecSPSC)                               *)
(***************************************************************************)
\* C7: with one producer calling try_push and one consumer calling try_pop
\* or try_read, the consumer never reads a slot whose write has not been
\* published to it, the producer never overwrites a slot whose read is not
\* finished for it, and the popped values are the pushed values in order.
C7_LockFree ==
    /\ ~hb.raceRead
    /\ ~hb.raceWrite
    /\ Len(popped) <= Len(pushed)
    /\ popped = SubSeq(pushed, 1, Len(popped))

(***************************************************************************)
(* Snapshot/diff synchronisation (SpecBook)                                *)
(***************************************************************************)
\* the producer has delivered the stream, the buffer is drained and the
\* live loop is polling
Quiescent ==
    /\ eng.pc = "k_loop"
    /\ read_index = write_index
    /\ fed = Len(feed)
    /\ prod.pc = "idle"

\* the buffer held (995,999), (1000,1005), (1006,1010) when init() started,
\* nothing was received afterwards, and every snapshot had lastUpdateId 1000
BoundaryScenario ==
    /\ feed = StreamBoundary
    /\ glog.prefill = Len(StreamBoundary)
    /\ glog.snapshotIds = {1000}

\* C8: in the boundary scenario init() followed by keep_orderbook_sync()
\* discards (995,999), applies (1000,1005) as the first live update, then
\* (1006,1010), and the cursor ends at 1010.
C8_Boundary ==
    (BoundaryScenario /\ Quiescent)
    => /\ <<995, 999>> \in glog.dropped
       /\ glog.applied = << <<1000, 1005>>, <<1006, 1010>> >>
       /\ eng.local_update_id = 1010

C10_CursorIsSnapshotId ==
    glog.synced => eng.local_update_id = glog.L

(***************************************************************************)
(* Price levels and best-price indices (SpecBook)                          *)
(***************************************************************************)
\* lines 398-403: best bid and best ask are logged when both heaps hold an
\* entry after the pruning of lines 387-395
Reported == ~HeapEmpty(bid_heap) /\ ~HeapEmpty(ask_heap)

best_bid == BidTop(bid_heap)

best_ask == AskTop(ask_heap)

MaxKey(map) == CHOOSE p \in DOMAIN map : \A q \in DOMAIN map : q <= p

MinKey(map) == CHOOSE p \in DOMAIN map : \A q \in DOMAIN map : p <= q

\* the heap holds an entry for a price that is not in the map
Stale(heap, map) == HeapPrices(heap) \ DOMAIN map

\* C11: a price that an applied update erased from a side with quantity 0,
\* and that nothing has stored again since, is never logged as that side's
\* best price, although its heap entry may still be there.
C11_ZeroedNotBest ==
    [][(K_Prune /\ Reported')
       => /\ best_bid' \notin glog'.zeroed.bids
          /\ best_ask' \notin glog'.zeroed.asks]_vars

C11_Witness ==
    /\ eng.pc = "k_loop"
    /\ Reported
    /\ glog.zeroed.asks \cap Stale(ask_heap, ask_map) # {}
    /\ glog.zeroed.bids \cap Stale(bid_heap, bid_map) # {}

\* C12: the pruning step leaves the top of the bid heap at the greatest key
\* of bid_map and the top of the ask heap at the least key of ask_map, and a
\* heap empty when its map is empty.
C12_TopIsBest ==
    [][K_Prune
       => /\ IF DOMAIN bid_map' = {} THEN HeapEmpty(bid_heap')
             ELSE ~HeapEmpty(bid_heap') /\ best_bid' = MaxKey(bid_map')
          /\ IF DOMAIN ask_map' = {} THEN HeapEmpty(ask_heap')
             ELSE ~HeapEmpty(ask_heap') /\ best_ask' = MinKey(ask_map')]_vars

C12_Witness ==
    /\ eng.pc = "k_loop"
    /\ glog.applied # << >>
    /\ glog.snapshotIds # {}
    /\ Cardinality(DOMAIN ask_map) = 2 /\ best_ask = MinKey(ask_map)
    /\ DOMAIN bid_map = {} /\ HeapEmpty(bid_heap) /\ glog.zeroed.bids # {}

\* C13: every entry of bid_map and ask_map has a quantity > 0.
C13_PositiveQuantities ==
    /\ \A p \in DOMAIN bid_map : bid_map[p] > 0
    /\ \A p \in DOMAIN ask_map : ask_map[p] > 0

\* a snapshot with a quantity 0 level was loaded and an update with
\* quantity 0 levels was applied
C13_Witness ==
    /\ glog.book.asks = <<Level(2, 7), Level(1, 0)>>
    /\ glog.applied # << >>
    /\ glog.zeroed.bids # {} /\ glog.zeroed.asks # {}
    /\ DOMAIN bid_map # {} /\ DOMAIN ask_map # {}

\* the final_update_id of the updates applied, in order
FinalIds == [i \in 1 .. Len(glog.applied) |-> glog.applied[i][2]]

\* C14: inside keep_orderbook_sync() local_update_id never decreases, an
\* applied update leaves it at the update's final_update_id, and the final
\* ids of the updates applied are in non-decreasing order.
C14_CursorMonotone ==
    [][/\ eng.ctx = "sync_thread" => eng'.local_update_id >= eng.local_update_id
       /\ K_Apply => /\ eng'.local_update_id = eng.event_last_update_id
                     /\ eng'.local_update_id = FinalIds'[Len(FinalIds')]
       /\ \A i \in 1 .. Len(FinalIds') - 1 : FinalIds'[i] <= FinalIds'[i + 1]]_vars

\* two updates were applied and an older one, which no snapshot covered,
\* was met afterwards
C14_Witness ==
    /\ Len(glog.applied) >= 2
    /\ FinalIds[1] < FinalIds[2]
    /\ eng.pc = "k_loop"
    /\ eng.local_update_id = FinalIds[Len(FinalIds)]
    /\ glog.snapshotIds = {1000}
    /\ <<1000, 1005>> \in glog.dropped

(***************************************************************************)
(* init() and resynchronisation (SpecBook)                                 *)
(***************************************************************************)
\* the map that holds exactly the levels of positive quantity of a snapshot
SnapshotMap(levels) == LoadLevels(EmptyMap, EmptyHeap, levels).map

\* C15: right after init() returns true, bid_map and ask_map hold exactly
\* the levels of positive quantity of the snapshot it loaded, and the heaps
\* hold no price that is absent from the snapshot.
C15_SyncRebuilds ==
    (glog.synced /\ glog.L # -1)
    => /\ bid_map = SnapshotMap(glog.book.bids)
       /\ ask_map = SnapshotMap(glog.book.asks)
       /\ HeapPrices(bid_heap) \subseteq DOMAIN SnapshotMap(glog.book.bids)
       /\ HeapPrices(ask_heap) \subseteq DOMAIN SnapshotMap(glog.book.asks)

\* C16: init() returns true only if it loaded a snapshot whose lastUpdateId
\* is at least the first_update_id U0 it peeked.
C16_SyncedOnlyWithSnapshot ==
    glog.synced => (glog.L # -1 /\ glog.L >= glog.U0)

\* C17: the drain loop of init() discards only updates with
\* final_update_id <= lastUpdateId, and the update it puts back is the one
\* the next try_pop returns.
C17_PushBackAtFront ==
    [][/\ (I_Drain /\ read_index' # read_index /\ eng'.pc = "i_drain")
          => stoll(buffer[read_index].final_update_id).value <= eng.last_update_id
       /\ I_PushStoreWrite
          => /\ try_pop(buffer', read_index', write_index').ok
             /\ try_pop(buffer', read_index', write_index').value = eng.drain_event]_vars

\* C18: after an init() called by keep_orderbook_sync() has thrown, no
\* update is popped from the buffer and none is applied.
C18_FailedResyncHalts ==
    [][glog.failed => (read_index' = read_index /\ glog'.applied = glog.applied)]_vars

\* C19: init() makes at most MAX_RETRIES peeks and MAX_SNAPSHOT_RETRIES
\* fetches, and does not return true when none of its fetches ended with a
\* snapshot loaded.
C19_BoundedRetries ==
    /\ eng.retry_count <= MAX_RETRIES
    /\ eng.snapshot_retry_count <= MAX_SNAPSHOT_RETRIES
    /\ (eng.pc \in {"i_fetch", "i_drain"} => glog.U0 # -1)
    /\ (glog.synced => glog.L # -1)

\* C20: when the producer has pushed a message and init() is in its wait
\* loop, init() eventually leaves the wait loop.
C20_ReadyEventually ==
    (Len(pushed) > 0 /\ eng.pc = "i_wait") ~> (eng.pc # "i_wait")

(***************************************************************************)
(* Shutdown (SpecBookStop)                                                 *)
(***************************************************************************)
\* init() and keep_orderbook_sync() have returned or the process has ended
Stopped == eng.pc = "terminated"

\* C21: once a shutdown is requested the engine's running operation
\* eventually stops.
C21_StopsOnShutdown ==
    glog.shutdown ~> Stopped

(***************************************************************************)
(* Ownership of the maps (SpecBook)                                        *)
(***************************************************************************)
\* C28: the sync thread is started only when the init thread has finished,
\* a resync runs in the sync thread, and no step of the producer changes
\* bid_map, ask_map, bid_heap or ask_heap: only steps of the one engine
\* thread that is running do.
C28_ExclusiveOwner ==
    [][/\ M_StartSync => eng.pc = "t_done"
       /\ eng.ctx = "sync_thread" => eng'.ctx = "sync_thread"
       /\ ProducerStep => UNCHANGED bookVars
       /\ ~(UNCHANGED bookVars) => (I_Fetch \/ K_Apply \/ K_Prune)]_vars

\* a resync is loading a snapshot in the sync thread, on top of a book,
\* while the producer is inside try_push
C28_Witness ==
    /\ eng.ctx = "sync_thread" /\ eng.init_done
    /\ eng.pc = "i_drain" /\ glog.resyncs > 0 /\ glog.L # -1
    /\ DOMAIN bid_map # {}
    /\ prod.pc = "store_slot"

(***************************************************************************)
(* The live loop's treatment of one update (SpecBook)                      *)
(***************************************************************************)
\* a price or quantity string of the update does not convert
Malformed(ev) ==
    \/ ~ApplyLevels(EmptyMap, EmptyHeap, ev.bids).ok
    \/ ~ApplyLevels(EmptyMap, EmptyHeap, ev.asks).ok

\* C22: an update with a malformed field is dropped as a whole: handling it
\* leaves bid_map, ask_map, bid_heap and ask_heap as they were, and the
\* loop goes on.
C22_MalformedDropped ==
    [][(K_Apply /\ Malformed(eng.event))
       => (UNCHANGED bookVars /\ eng'.pc = "k_prune")]_vars

\* the update at the head of the buffer, as keep_orderbook_sync() reads it
HeadFirst == stoll(buffer[read_index].first_update_id)

HeadLast == stoll(buffer[read_index].final_update_id)

Popped == K_Pop /\ read_index' # read_index /\ HeadFirst.ok /\ HeadLast.ok

\* C23: a popped update with final_update_id <= local_update_id is
\* discarded: the loop goes to its next turn with the cursor, the maps and
\* the heaps unchanged, and nothing of the update is applied.
C23_StaleDiscarded ==
    [][(Popped /\ HeadLast.value <= eng.local_update_id)
       => /\ eng'.pc = "k_loop"
          /\ eng'.local_update_id = eng.local_update_id
          /\ Ids(buffer[read_index]) \in glog'.dropped
          /\ UNCHANGED bookVars]_vars

\* C24: a popped update with final_update_id > local_update_id and
\* first_update_id <= local_update_id + 1 is applied with no call of init().
C24_ResyncOnlyOnGap ==
    [][(/\ Popped
        /\ HeadLast.value > eng.local_update_id
        /\ HeadFirst.value <= eng.local_update_id + 1)
       => (eng'.pc = "k_apply" /\ glog'.resyncs = glog.resyncs)]_vars

\* C25: an update applied after an init() that loaded a snapshot with
\* lastUpdateId L has final_update_id > L.
C25_NoneOlderThanSnapshot ==
    [][(K_Apply /\ glog.L # -1) => eng.event_last_update_id > glog.L]_vars

(***************************************************************************)
(* The buffer between the producer and init() (SpecBook)                   *)
(***************************************************************************)
\* the slots that hold an update pushed and not yet popped
RECURSIVE Occupied(_, _)
Occupied(r, w) == IF r = w THEN {} ELSE {r} \cup Occupied(NextIndex(r), w)

\* C26: the stores of the try_push that init() calls leave every update
\* that is in the buffer where it is: no occupied slot is overwritten and
\* none falls out of the range read_index .. write_index.
C26_SingleProducer ==
    [][(I_PushStoreSlot \/ I_PushStoreWrite)
       => \A i \in Occupied(read_index, write_index) :
             /\ buffer'[i] = buffer[i]
             /\ i \in Occupied(read_index', write_index')]_vars

(***************************************************************************)
(* The order of the steps of init() (SpecBook)                             *)
(***************************************************************************)
\* C27: init() peeks and fetches only when the buffer is ready, fetches
\* only after a peek gave U0, and pops only after it loaded a snapshot with
\* lastUpdateId >= U0.
C27_StepsInOrder ==
    [][/\ (I_Peek \/ I_Fetch \/ I_Drain) => is_ready
       /\ (I_Fetch \/ I_Drain) => glog.U0 # -1
       /\ I_Drain => (glog.L # -1 /\ glog.L >= glog.U0)]_vars

(***************************************************************************)
(* Size of the heaps and what is logged (SpecBook)                         *)
(***************************************************************************)
RECURSIVE HeapSizeUpTo(_, _)
HeapSizeUpTo(heap, p) == IF p = 0 THEN 0 ELSE heap[p] + HeapSizeUpTo(heap, p - 1)

\* priority_queue::size()
HeapSize(heap) == HeapSizeUpTo(heap, MaxPrice)

\* C29: after the pruning step a heap holds at most two entries per
\* distinct price, however many updates were processed.
C29_HeapBounded ==
    [][K_Prune
       => /\ HeapSize(bid_heap') <= 2 * MaxPrice
          /\ HeapSize(ask_heap') <= 2 * MaxPrice]_vars

\* C30: after the pruning step the best bid is logged exactly when bid_map
\* is not empty, the best ask exactly when ask_map is not empty, and the
\* spread exactly when neither is empty.
C30_BestPerSide ==
    [][K_Prune
       => /\ Reported' <=> DOMAIN bid_map' # {}
          /\ Reported' <=> DOMAIN ask_map' # {}
          /\ Reported' <=> (DOMAIN bid_map' # {} /\ DOMAIN ask_map' # {})]_vars

(***************************************************************************)
(* Every key of a map has a heap entry (SpecBook)                          *)
(***************************************************************************)
\* C31: in every reachable state every price that is a key of bid_map has
\* at least one entry in bid_heap and every key of ask_map has at least one
\* entry in ask_heap.
C31_KeysInHeap ==
    /\ DOMAIN bid_map \subseteq HeapPrices(bid_heap)
    /\ DOMAIN ask_map \subseteq HeapPrices(ask_heap)

\* bid 1 was loaded by two snapshots, erased by (1008,1010), pruned from the
\* heap (one entry is left of three pushes) and stored again by a resync
C31_Witness ==
    /\ eng.pc = "i_drain"
    /\ glog.resyncs = 2
    /\ glog.applied = <<Ids(StreamGap[3])>>
    /\ 1 \in DOMAIN bid_map
    /\ bid_heap[1] = 1
    /\ DOMAIN ask_map = {1, 2}

====
